---- MODULE Spec2Model ----
(***************************************************************************)
(* update_manifest_script.py: one run of the trinket manifest updater, and *)
(* successive runs on the same manifest file.                              *)
(*                                                                         *)
(* Every Python string is a sequence of tokens; a token is a character of  *)
(* an id or an indivisible piece of a URL, a digest or a reference, so     *)
(* that replace, title and the substring test work on what they are given. *)
(***************************************************************************)
EXTENDS Integers, Sequences, FiniteSets, TLC

\* ------------------------------------------------------------------ bounds
MaxEntries == 2      \* entries of the manifest file before the first run
MaxFolders == 2      \* items listed in the archive's root directory
MaxRuns    == 2      \* successive runs of the script on one file

\* --------------------------------------------------------------- constants
EXCLUDE_PATTERNS ==
    { <<".git">>, <<".github">>, <<".vscode">>, <<"__pycache__">>, <<".DS_Store">> }

None == [some |-> FALSE, val |-> <<>>]
Some(v) == [some |-> TRUE, val |-> v]

\* A check for None only: an empty value passes.
Truthy_NotNone(o) == o.some

\* Python truthiness of os.environ.get(...): None and "" are falsy.
Truthy(o) == o.some /\ o.val # <<>>

\* -------------------------------------------------------- string functions
Lowers == {"a", "b"}
Uppers == {"A", "B"}

IsCased(c) == c \in Lowers \cup Uppers

ToUpper(c) == IF c = "a" THEN "A" ELSE IF c = "b" THEN "B" ELSE c

ToLower(c) == IF c = "A" THEN "a" ELSE IF c = "B" THEN "b" ELSE c

\* str.replace(old, new) for one-character old and new.
Replace(s, old, new) == [i \in 1..Len(s) |-> IF s[i] = old THEN new ELSE s[i]]

\* str.title(): a left-to-right scan carrying "the previous character is
\* cased"; a cased character becomes upper case after an uncased one (or at
\* the start) and lower case after a cased one.
RECURSIVE TitleFrom(_, _, _)
TitleFrom(s, i, prevCased) ==
    IF i > Len(s) THEN <<>>
    ELSE IF IsCased(s[i])
         THEN <<IF prevCased THEN ToLower(s[i]) ELSE ToUpper(s[i])>>
              \o TitleFrom(s, i + 1, TRUE)
         ELSE <<s[i]>> \o TitleFrom(s, i + 1, FALSE)

Title(s) == TitleFrom(s, 1, FALSE)

\* The name without the replacement of '-'.
TrinketName_NoReplace(id) == Title(id)

\* trinket_id.replace('-', ' ').title()
TrinketName(id) == Title(Replace(id, "-", " "))

\* Python's `needle in haystack` on strings.
Contains(needle, hay) ==
    \E k \in 0..(Len(hay) - Len(needle)) :
        \A i \in 1..Len(needle) : hay[k + i] = needle[i]

HostingBase == <<"https://", "Nishimba", ".github.io", "/", "TrinketCollection", "/">>

AppUrlOf(id)    == HostingBase \o id \o <<"/", "index.html">>
IconUrlOf(id)   == HostingBase \o id \o <<"/", "icon.png">>
EntryFileOf(id) == HostingBase \o id \o <<"/", "index.html">>

new_trinket_entry(id, hash, ref) ==
    [ id        |-> id,
      name      |-> TrinketName(id),
      appUrl    |-> AppUrlOf(id),
      iconUrl   |-> IconUrlOf(id),
      entryFile |-> EntryFileOf(id),
      hash      |-> hash,
      ref       |-> ref ]

\* ------------------------------------------------------------ environment
\* Names of trinket folders, and the names of the items of the archive's
\* root directory.
TrinketIds == { <<"a">>, <<"a", "B", "-", "b">> }
NamePool == TrinketIds \cup { <<".git">> }

RepoA == <<"Nishimba", "/", "TrinketCollection">>
RepoB == <<"TrinketCollection">>
RefMain == <<"main">>
RefOld  == <<"old">>
Digests == { <<"h1">>, <<"h2">> }

\* A URL under the content repository's raw host: it contains RepoA.
RepoUrlOf(id) ==
    <<"https://", "raw.githubusercontent.com", "/", "Nishimba", "/", "TrinketCollection", "/">>
    \o id \o <<"/", "index.html">>

\* Entries a manifest file may hold before the first run: an entry served
\* from the repository's raw host and an entry served from the hosting base,
\* both with a ref other than the configured one.  Their hash is the first
\* digest, so the upstream's digest decides whether it is current.
EntryShapes ==
    { [url |-> "repo", ref |-> RefOld],
      [url |-> "hosting", ref |-> RefOld] }

EntryPool ==
    { [ id        |-> id,
        name      |-> <<"Trinket">>,
        appUrl    |-> IF sh.url = "hosting" THEN AppUrlOf(id) ELSE RepoUrlOf(id),
        iconUrl   |-> IconUrlOf(id),
        entryFile |-> EntryFileOf(id),
        hash      |-> <<"h1">>,
        ref       |-> sh.ref ] :
      id \in TrinketIds, sh \in EntryShapes }

SeqsUpTo(S, n) == UNION { [1..k -> S] : k \in 0..n }

\* The manifest file: absent, not JSON, or a JSON array of entries in some
\* layout: "hand" is a file as its maintainer laid it out, "indent2" is what
\* json.dump(..., indent=2) produces.
Files ==
    { [kind |-> "missing", data |-> <<>>, fmt |-> "none"],
      [kind |-> "invalid", data |-> <<>>, fmt |-> "none"] }
    \cup { [kind |-> "json", data |-> d, fmt |-> "hand"] :
            d \in SeqsUpTo(EntryPool, MaxEntries) }

\* An item of the root directory: a directory of any name, or a plain file
\* named like a trinket.
Items ==
    { [name |-> n, isdir |-> TRUE] : n \in NamePool }
    \cup { [name |-> <<"a">>, isdir |-> FALSE] }

\* os.listdir of a directory: distinct names, in any order.
Listings ==
    { l \in SeqsUpTo(Items, MaxFolders) :
        \A i, j \in 1..Len(l) : i # j => l[i].name # l[j].name }

TopFile == [name |-> <<"README">>, isdir |-> FALSE]
TopDir  == [name |-> <<"repo-sha">>, isdir |-> TRUE]

\* What the upstream serves: the digest of the archive's bytes, the listing of
\* the extracted archive and the listing of its first directory.
Upstreams ==
    { [digest |-> d, top |-> t, root |-> <<>>] :
        d \in Digests, t \in { <<>>, <<TopFile>> } }
    \cup { [digest |-> d, top |-> <<TopFile, TopDir>>, root |-> r] :
            d \in Digests, r \in Listings }

\* <<TRINKET_CONTENT_REPO, TRINKET_CONTENT_REF>> as the process finds them.
Envs ==
    { <<Some(RepoA), Some(RefMain)>>, <<Some(RepoB), Some(RefMain)>>,
      <<None, Some(RefMain)>>, <<Some(<<>>), Some(RefMain)>>,
      <<Some(RepoA), None>>, <<Some(RepoA), Some(<<>>)>> }

\* ------------------------------------------------------------------ state
VARIABLES
    TRINKET_CONTENT_REPO,   \* os.environ.get('TRINKET_CONTENT_REPO')
    TRINKET_CONTENT_REF,    \* os.environ.get('TRINKET_CONTENT_REF')
    file,                   \* the manifest file on disk
    upstream,               \* what the archive endpoint serves
    pc,                     \* position of the run in the script
    opened,                 \* the manifest file has been opened in this run
    manifest_data,          \* the entry sequence in memory
    updated,
    existing_trinket_ids,
    new_repo_hash,
    repo_root_dir,
    scan_i,                 \* index of the scan loop in os.listdir(repo_root_dir)
    exit_code,              \* -1 while the run is in progress
    abort_at,               \* which fatal condition ended the run
    n_requests,             \* HTTP requests issued in this run
    n_writes,               \* writes to the manifest file in this run
    run,                    \* number of the run
    file_at_start,          \* the manifest file when this run started
    prev_outcome            \* how the previous run ended

mem  == <<manifest_data, updated, existing_trinket_ids, new_repo_hash, repo_root_dir,
          scan_i>>
envv == <<TRINKET_CONTENT_REPO, TRINKET_CONTENT_REF, upstream>>
hist == <<run, file_at_start, prev_outcome>>
vars == <<TRINKET_CONTENT_REPO, TRINKET_CONTENT_REF, file, upstream, pc, opened,
          manifest_data, updated, existing_trinket_ids, new_repo_hash, repo_root_dir,
          scan_i, exit_code, abort_at, n_requests, n_writes, run,
          file_at_start, prev_outcome>>

\* The state of the interpreter when the script starts.
Fresh ==
    /\ pc = "env"
    /\ opened = FALSE
    /\ manifest_data = <<>>
    /\ updated = FALSE
    /\ existing_trinket_ids = {}
    /\ new_repo_hash = None
    /\ repo_root_dir = None
    /\ scan_i = 0
    /\ exit_code = -1
    /\ abort_at = "none"
    /\ n_requests = 0
    /\ n_writes = 0

\* A run that stops before its first request never learns what the upstream
\* serves, so one upstream stands for all of them there.
Init ==
    /\ \E e \in Envs : TRINKET_CONTENT_REPO = e[1] /\ TRINKET_CONTENT_REF = e[2]
    /\ file \in Files
    /\ upstream \in IF Truthy(TRINKET_CONTENT_REPO) /\ Truthy(TRINKET_CONTENT_REF)
                       /\ file.kind = "json"
                    THEN Upstreams
                    ELSE { [digest |-> <<"h1">>, top |-> <<TopFile, TopDir>>, root |-> <<>>] }
    /\ Fresh
    /\ run = 1
    /\ file_at_start = file
    /\ prev_outcome = "none"

\* exit(1): the run ends; the open file, if any, is closed as it is.
Abort(why) ==
    /\ pc' = "abort"
    /\ exit_code' = 1
    /\ abort_at' = why

\* Lines 16-18.
EnvOk ==
    /\ pc = "env"
    /\ Truthy(TRINKET_CONTENT_REPO) /\ Truthy(TRINKET_CONTENT_REF)
    /\ pc' = "open"
    /\ UNCHANGED <<file, opened, exit_code, abort_at, n_requests, n_writes>>
    /\ UNCHANGED <<mem, envv, hist>>

EnvMissing ==
    /\ pc = "env"
    /\ ~(Truthy(TRINKET_CONTENT_REPO) /\ Truthy(TRINKET_CONTENT_REF))
    /\ Abort("env")
    /\ UNCHANGED <<file, opened, n_requests, n_writes>>
    /\ UNCHANGED <<mem, envv, hist>>

\* Lines 39-43: open(MANIFEST_FILE, 'r+'), json.load, updated, existing ids.
LoadManifest ==
    /\ pc = "open"
    /\ file.kind = "json"
    /\ opened' = TRUE
    /\ manifest_data' = file.data
    /\ updated' = FALSE
    /\ existing_trinket_ids' = { file.data[i].id : i \in 1..Len(file.data) }
    /\ pc' = "hash"
    /\ UNCHANGED <<file, new_repo_hash, repo_root_dir, scan_i, exit_code,
                   abort_at, n_requests, n_writes>>
    /\ UNCHANGED <<envv, hist>>

\* Lines 39, 135-137: open raises FileNotFoundError.
ManifestNotFound ==
    /\ pc = "open"
    /\ file.kind = "missing"
    /\ Abort("not_found")
    /\ UNCHANGED <<file, opened, n_requests, n_writes>>
    /\ UNCHANGED <<mem, envv, hist>>

\* Lines 40, 138-140: json.load raises JSONDecodeError.
ManifestNotJson ==
    /\ pc = "open"
    /\ file.kind = "invalid"
    /\ opened' = TRUE
    /\ Abort("json")
    /\ UNCHANGED <<file, n_requests, n_writes>>
    /\ UNCHANGED <<mem, envv, hist>>

\* Lines 20-36: the digest of the downloaded bytes, or None when requests.get
\* or raise_for_status raises a RequestException.
calculate_sha256_from_url(ok) == IF ok THEN Some(upstream.digest) ELSE None

\* Lines 46-51 with a successful first download.
HashOk ==
    /\ pc = "hash"
    /\ n_requests' = n_requests + 1
    /\ new_repo_hash' = calculate_sha256_from_url(TRUE)
    /\ pc' = "download"
    /\ UNCHANGED <<file, opened, manifest_data, updated, existing_trinket_ids,
                   repo_root_dir, scan_i, exit_code, abort_at, n_writes>>
    /\ UNCHANGED <<envv, hist>>

\* A failed first download that is not checked: the run goes on.
HashFail_Continues ==
    /\ pc = "hash"
    /\ n_requests' = n_requests + 1
    /\ new_repo_hash' = calculate_sha256_from_url(FALSE)
    /\ pc' = "download"
    /\ UNCHANGED <<file, opened, manifest_data, updated, existing_trinket_ids,
                   repo_root_dir, scan_i, exit_code, abort_at, n_writes>>
    /\ UNCHANGED <<envv, hist>>

\* Lines 46-51 with a failed first download: `if not new_repo_hash: exit(1)`.
HashFail ==
    /\ pc = "hash"
    /\ n_requests' = n_requests + 1
    /\ new_repo_hash' = calculate_sha256_from_url(FALSE)
    /\ Abort("hash")
    /\ UNCHANGED <<file, opened, manifest_data, updated, existing_trinket_ids,
                   repo_root_dir, scan_i, n_writes>>
    /\ UNCHANGED <<envv, hist>>

\* Lines 55-64: the second GET succeeds and the body is saved.
DownloadOk ==
    /\ pc = "download"
    /\ n_requests' = n_requests + 1
    /\ pc' = "extract"
    /\ UNCHANGED <<file, opened, exit_code, abort_at, n_writes>>
    /\ UNCHANGED <<mem, envv, hist>>

\* Lines 57-58, 104-106: the second GET raises a RequestException.
DownloadFail ==
    /\ pc = "download"
    /\ n_requests' = n_requests + 1
    /\ Abort("download")
    /\ UNCHANGED <<file, opened, n_writes>>
    /\ UNCHANGED <<mem, envv, hist>>

\* Lines 66-68: the archive is extracted.
ExtractOk ==
    /\ pc = "extract"
    /\ pc' = "findroot"
    /\ UNCHANGED <<file, opened, exit_code, abort_at, n_requests, n_writes>>
    /\ UNCHANGED <<mem, envv, hist>>

\* Lines 66, 107-109: zipfile.BadZipFile.
ExtractBadZip ==
    /\ pc = "extract"
    /\ Abort("bad_zip")
    /\ UNCHANGED <<file, opened, n_requests, n_writes>>
    /\ UNCHANGED <<mem, envv, hist>>

\* Lines 60-68, 110-112: any other exception while saving or extracting.
ExtractError ==
    /\ pc = "extract"
    /\ Abort("unexpected")
    /\ UNCHANGED <<file, opened, n_requests, n_writes>>
    /\ UNCHANGED <<mem, envv, hist>>

\* Lines 70-74: the first directory of a listing, or None.
RECURSIVE FirstDir(_, _)
FirstDir(listing, i) ==
    IF i > Len(listing) THEN None
    ELSE IF listing[i].isdir THEN Some(listing[i].name)
    ELSE FirstDir(listing, i + 1)

\* Lines 70-78.
FindRoot ==
    /\ pc = "findroot"
    /\ repo_root_dir' = FirstDir(upstream.top, 1)
    /\ IF repo_root_dir'.some
          THEN /\ pc' = "scan"
               /\ scan_i' = 1
               /\ UNCHANGED <<exit_code, abort_at>>
          ELSE /\ Abort("no_root")
               /\ UNCHANGED scan_i
    /\ UNCHANGED <<file, opened, manifest_data, updated, existing_trinket_ids,
                   new_repo_hash, n_requests, n_writes>>
    /\ UNCHANGED <<envv, hist>>

\* The scan without the test against the known ids.
IsNewTrinket_IgnoreKnown(item, known) ==
    /\ item.name \notin EXCLUDE_PATTERNS
    /\ item.isdir

\* The scan without the exclusion set.
IsNewTrinket_NoExclude(item, known) ==
    /\ item.isdir
    /\ item.name \notin known

\* Lines 82-89: this item of the root directory gets a new entry.
IsNewTrinket(item, known) ==
    /\ item.name \notin EXCLUDE_PATTERNS
    /\ item.isdir
    /\ item.name \notin known

\* Lines 81-102: one iteration of the scan loop.
ScanStep ==
    /\ pc = "scan"
    /\ scan_i <= Len(upstream.root)
    /\ LET item == upstream.root[scan_i] IN
         IF IsNewTrinket(item, existing_trinket_ids)
         THEN /\ manifest_data' = Append(manifest_data,
                      new_trinket_entry(item.name, new_repo_hash.val, TRINKET_CONTENT_REF.val))
              /\ updated' = TRUE
              /\ existing_trinket_ids' = existing_trinket_ids \cup {item.name}
         ELSE UNCHANGED <<manifest_data, updated, existing_trinket_ids>>
    /\ scan_i' = scan_i + 1
    /\ UNCHANGED <<file, opened, pc, new_repo_hash, repo_root_dir, exit_code,
                   abort_at, n_requests, n_writes>>
    /\ UNCHANGED <<envv, hist>>

\* Lines 81-102, 110-112: an iteration raises (a print that fails, say); the
\* entries appended so far stay in memory and the run exits.
ScanError ==
    /\ pc = "scan"
    /\ scan_i <= Len(upstream.root)
    /\ Abort("unexpected")
    /\ UNCHANGED <<file, opened, n_requests, n_writes>>
    /\ UNCHANGED <<mem, envv, hist>>

\* Line 81 exhausted: the temporary directory is released, step 4 is next.
ScanDone ==
    /\ pc = "scan"
    /\ scan_i > Len(upstream.root)
    /\ pc' = "update"
    /\ UNCHANGED <<file, opened, exit_code, abort_at, n_requests, n_writes>>
    /\ UNCHANGED <<mem, envv, hist>>

\* The update test without the comparison of hashes.
NeedsUpdate_IgnoreHash(trinket, repo, hash) == Contains(repo, trinket.appUrl)

\* The update test without the test of the appUrl.
NeedsUpdate_AnyUrl(trinket, repo, hash) == trinket.hash # hash

\* Lines 116-117: this entry gets the new hash and ref.
NeedsUpdate(trinket, repo, hash) ==
    /\ Contains(repo, trinket.appUrl)
    /\ trinket.hash # hash

\* The update loop setting the hash and leaving the ref.
RECURSIVE UpdateHashes_HashOnly(_, _, _, _, _, _)
UpdateHashes_HashOnly(data, upd, i, repo, hash, ref) ==
    IF i > Len(data) THEN [data |-> data, updated |-> upd]
    ELSE IF NeedsUpdate(data[i], repo, hash)
         THEN UpdateHashes_HashOnly([data EXCEPT ![i] = [data[i] EXCEPT !.hash = hash]],
                                    TRUE, i + 1, repo, hash, ref)
         ELSE UpdateHashes_HashOnly(data, upd, i + 1, repo, hash, ref)

\* The update loop changing entries without setting `updated`.
RECURSIVE UpdateHashes_NoFlag(_, _, _, _, _, _)
UpdateHashes_NoFlag(data, upd, i, repo, hash, ref) ==
    IF i > Len(data) THEN [data |-> data, updated |-> upd]
    ELSE IF NeedsUpdate(data[i], repo, hash)
         THEN UpdateHashes_NoFlag([data EXCEPT ![i] = [data[i] EXCEPT !.hash = hash, !.ref = ref]],
                                  upd, i + 1, repo, hash, ref)
         ELSE UpdateHashes_NoFlag(data, upd, i + 1, repo, hash, ref)

\* Lines 115-125: the update loop over the entries from index i on; the
\* result is the entry sequence and the `updated` flag after it.
RECURSIVE UpdateHashes(_, _, _, _, _, _)
UpdateHashes(data, upd, i, repo, hash, ref) ==
    IF i > Len(data) THEN [data |-> data, updated |-> upd]
    ELSE IF NeedsUpdate(data[i], repo, hash)
         THEN UpdateHashes([data EXCEPT ![i] = [data[i] EXCEPT !.hash = hash, !.ref = ref]],
                           TRUE, i + 1, repo, hash, ref)
         ELSE UpdateHashes(data, upd, i + 1, repo, hash, ref)

\* json.dump(manifest_data, f, indent=2) over the whole file.
Dump(data) == [kind |-> "json", data |-> data, fmt |-> "indent2"]

\* Lines 114-125: step 4 applied to the entries in memory.
Reconciled ==
    UpdateHashes(manifest_data, updated, 1, TRINKET_CONTENT_REPO.val,
                 new_repo_hash.val, TRINKET_CONTENT_REF.val)

\* Lines 114-131: step 4 left `updated` set; seek(0), dump, truncate.
WriteManifest ==
    /\ pc = "update"
    /\ Reconciled.updated
    /\ manifest_data' = Reconciled.data
    /\ updated' = TRUE
    /\ file' = Dump(Reconciled.data)
    /\ n_writes' = n_writes + 1
    /\ pc' = "done"
    /\ exit_code' = 0
    /\ UNCHANGED <<opened, existing_trinket_ids, new_repo_hash, repo_root_dir, scan_i,
                   abort_at, n_requests>>
    /\ UNCHANGED <<envv, hist>>

\* Lines 114-125, 132-133: step 4 left `updated` clear; nothing is written.
NoChanges ==
    /\ pc = "update"
    /\ ~Reconciled.updated
    /\ manifest_data' = Reconciled.data
    /\ updated' = FALSE
    /\ pc' = "done"
    /\ exit_code' = 0
    /\ UNCHANGED <<file, opened, existing_trinket_ids, new_repo_hash, repo_root_dir,
                   scan_i, abort_at, n_requests, n_writes>>
    /\ UNCHANGED <<envv, hist>>

Outcome ==
    IF pc = "abort" THEN "abort"
    ELSE IF pc = "done" THEN (IF n_writes > 0 THEN "write" ELSE "noop")
    ELSE "running"

\* The script is run again after a successful run, on the same file and
\* environment and with the upstream serving what it served before.  (A run
\* after an abort starts from the file the aborted run started from.)
Rerun ==
    /\ pc = "done"
    /\ run < MaxRuns
    /\ run' = run + 1
    /\ file_at_start' = file
    /\ prev_outcome' = Outcome
    /\ pc' = "env"
    /\ opened' = FALSE
    /\ manifest_data' = <<>>
    /\ updated' = FALSE
    /\ existing_trinket_ids' = {}
    /\ new_repo_hash' = None
    /\ repo_root_dir' = None
    /\ scan_i' = 0
    /\ exit_code' = -1
    /\ abort_at' = "none"
    /\ n_requests' = 0
    /\ n_writes' = 0
    /\ UNCHANGED <<file, envv>>

Next ==
    \/ EnvOk \/ EnvMissing
    \/ LoadManifest \/ ManifestNotFound \/ ManifestNotJson
    \/ HashOk \/ HashFail
    \/ DownloadOk \/ DownloadFail
    \/ ExtractOk \/ ExtractBadZip \/ ExtractError
    \/ FindRoot
    \/ ScanStep \/ ScanError \/ ScanDone
    \/ WriteManifest \/ NoChanges
    \/ Rerun

Spec == Init /\ [][Next]_vars

\* ------------------------------------------------------------- properties
Done == pc = "done"

\* The entry sequence json.load returned in this run.
Loaded == file_at_start.data
LoadedIds == { Loaded[i].id : i \in 1..Len(Loaded) }

\* json.load has returned in this run.
HasLoaded == opened /\ file_at_start.kind = "json"

IdsDistinct(data) ==
    \A i, j \in 1..Len(data) : i # j => data[i].id # data[j].id

Digest == new_repo_hash.val
Ref == TRINKET_CONTENT_REF.val
Matches(e) == Contains(TRINKET_CONTENT_REPO.val, e.appUrl)

\* Immediate subdirectories of the archive root outside the exclusion set.
ContentFolders ==
    { upstream.root[k].name : k \in { k \in 1..Len(upstream.root) :
          upstream.root[k].isdir /\ upstream.root[k].name \notin EXCLUDE_PATTERNS } }

NewFolders == ContentFolders \ LoadedIds

\* C1: after a successful run every entry of the manifest whose appUrl
\* contains the repository identifier has the new digest as hash and the
\* configured reference as ref.
C1_MatchingShareHashAndRef ==
    Done => \A i \in 1..Len(file.data) :
                Matches(file.data[i]) =>
                    file.data[i].hash = Digest /\ file.data[i].ref = Ref

\* C2: a run that follows a successful run with the upstream unchanged
\* writes nothing, leaves the file as it found it, and ends as a no-op.
C2_SecondRunIsNoOp ==
    (run >= 2 /\ prev_outcome \in {"write", "noop"}) =>
        /\ n_writes = 0
        /\ file = file_at_start
        /\ Done => (~updated /\ Outcome = "noop" /\ manifest_data = Loaded)

C2_Witness ==
    /\ run = 2 /\ Done /\ prev_outcome = "write"
    /\ Len(Loaded) > 0 /\ NewFolders = {} /\ ContentFolders # {}
    /\ \E i \in 1..Len(Loaded) : Matches(Loaded[i])

\* C3 as claimed: an existing entry whose id is a content folder gets the new
\* hash and ref when its stored hash differed, whatever its appUrl.
C3_UpdatedWhateverAppUrl ==
    Done => \A i \in 1..Len(Loaded) :
                Loaded[i].id \in ContentFolders =>
                    IF Loaded[i].hash # Digest
                    THEN file.data[i].hash = Digest /\ file.data[i].ref = Ref
                    ELSE file.data[i].hash = Loaded[i].hash
                         /\ file.data[i].ref = Loaded[i].ref

\* C3 amended: an existing entry whose id is a content folder gets the new
\* hash and ref when its appUrl contains the repository identifier and its
\* stored hash differed; otherwise its hash and ref stay as they were.
C3_UpdatedIfMatching ==
    Done => \A i \in 1..Len(Loaded) :
                Loaded[i].id \in ContentFolders =>
                    IF Matches(Loaded[i]) /\ Loaded[i].hash # Digest
                    THEN file.data[i].hash = Digest /\ file.data[i].ref = Ref
                    ELSE file.data[i].hash = Loaded[i].hash
                         /\ file.data[i].ref = Loaded[i].ref

C3_Witness ==
    /\ Done
    /\ \E i, j \in 1..Len(Loaded) :
          /\ Loaded[i].id \in ContentFolders /\ Loaded[j].id \in ContentFolders
          /\ Matches(Loaded[i]) /\ Loaded[i].hash # Digest /\ Loaded[i].ref # Ref
          /\ ~Matches(Loaded[j]) /\ Loaded[j].hash # Digest
          /\ file.data[i].hash = Digest /\ file.data[j].hash # Digest

\* The display name of a folder, position by position: '-' gives a space, a
\* letter is upper case unless the character before it is a letter.
UpperForm == [c \in {"a", "A", "b", "B"} |-> IF c \in {"a", "A"} THEN "A" ELSE "B"]
LowerForm == [c \in {"a", "A", "b", "B"} |-> IF c \in {"a", "A"} THEN "a" ELSE "b"]

IsDisplayNameOf(n, id) ==
    /\ Len(n) = Len(id)
    /\ \A i \in 1..Len(id) :
          n[i] = IF id[i] = "-" THEN " "
                 ELSE IF id[i] \in DOMAIN UpperForm
                 THEN IF i > 1 /\ id[i - 1] \in DOMAIN UpperForm
                      THEN LowerForm[id[i]] ELSE UpperForm[id[i]]
                 ELSE id[i]

\* C4: after a successful run every new content folder B has exactly one
\* entry, placed after all loaded entries, with the display name of B, the
\* three URLs of the hosting base for B, the new digest and the configured
\* reference.
C4_NewFolderGetsEntry ==
    Done => \A B \in NewFolders :
                \E i \in (Len(Loaded) + 1)..Len(file.data) :
                    /\ \A j \in 1..Len(file.data) : file.data[j].id = B <=> j = i
                    /\ IsDisplayNameOf(file.data[i].name, B)
                    /\ file.data[i].appUrl = HostingBase \o B \o <<"/", "index.html">>
                    /\ file.data[i].iconUrl = HostingBase \o B \o <<"/", "icon.png">>
                    /\ file.data[i].entryFile = HostingBase \o B \o <<"/", "index.html">>
                    /\ file.data[i].hash = Digest
                    /\ file.data[i].ref = Ref

C4_Witness ==
    /\ Done /\ run = 1
    /\ Len(Loaded) = 1 /\ Loaded[1].id = <<"a">>
    /\ ContentFolders = { <<"a">>, <<"a", "B", "-", "b">> }
    /\ Len(file.data) = 2
    /\ file.data[2].name = <<"A", "b", " ", "B">>

\* C5: the file is written only as the last step of a run whose downloads
\* and scan succeeded; a run that ends successfully has written exactly when
\* it changed the entries in memory, which is exactly when there is a new
\* content folder or a matching entry with another hash; a run that ends as a
\* no-op leaves the file as it was.
C5_WrittenIffMutated ==
    /\ n_writes > 0 =>
          /\ Done /\ n_writes = 1 /\ n_requests = 2
          /\ scan_i > Len(upstream.root)
          /\ file = Dump(manifest_data)
    /\ Done =>
          /\ n_writes = 1 <=> manifest_data # Loaded
          /\ n_writes = 1 <=>
                \/ NewFolders # {}
                \/ \E i \in 1..Len(Loaded) :
                       Matches(Loaded[i]) /\ Loaded[i].hash # Digest
          /\ n_writes = 0 => file = file_at_start /\ Outcome = "noop"

C5_Witness ==
    /\ Done /\ n_writes = 1 /\ NewFolders = {}
    /\ file_at_start.fmt = "hand"
    /\ \E i \in 1..Len(Loaded) : Loaded[i].hash # file.data[i].hash

\* C6: the loaded entries stay a prefix of the manifest, each with its id,
\* name, appUrl, iconUrl and entryFile; one whose appUrl does not contain the
\* repository identifier stays as it was in every field; whatever follows the
\* loaded entries is a whole new entry of a new content folder.
PrefixKept(data) ==
    /\ Len(data) >= Len(Loaded)
    /\ \A i \in 1..Len(Loaded) :
          /\ data[i].id = Loaded[i].id
          /\ data[i].name = Loaded[i].name
          /\ data[i].appUrl = Loaded[i].appUrl
          /\ data[i].iconUrl = Loaded[i].iconUrl
          /\ data[i].entryFile = Loaded[i].entryFile
          /\ ~Matches(Loaded[i]) => data[i] = Loaded[i]
    /\ \A i \in (Len(Loaded) + 1)..Len(data) :
          /\ data[i].id \in NewFolders
          /\ DOMAIN data[i] = {"id", "name", "appUrl", "iconUrl", "entryFile", "hash", "ref"}

C6_OnlyAppendAndHashRef ==
    file_at_start.kind = "json" =>
        /\ file.kind = "json" /\ PrefixKept(file.data)
        /\ HasLoaded => PrefixKept(manifest_data)

C6_Witness ==
    /\ Done /\ n_writes = 1
    /\ Len(Loaded) = 2 /\ Len(file.data) = 3
    /\ ~Matches(Loaded[1]) /\ Loaded[1].hash # Digest
    /\ Matches(Loaded[2]) /\ Loaded[2].hash # Digest
    /\ file.data[2] # Loaded[2]

\* C7: when the ids of the loaded manifest are pairwise distinct, so are the
\* ids of the entries in memory and of the manifest file, at every point of
\* the run.
C7_IdsStayUnique ==
    (file_at_start.kind = "json" /\ IdsDistinct(Loaded)) =>
        /\ IdsDistinct(file.data)
        /\ HasLoaded => IdsDistinct(manifest_data)

C7_Witness ==
    /\ Done /\ n_writes = 1 /\ IdsDistinct(Loaded)
    /\ \E k \in 1..Len(upstream.root) :
          upstream.root[k].isdir /\ upstream.root[k].name \in LoadedIds
    /\ NewFolders # {}

\* C8: the ids a run adds are, at every point, among the new content folders
\* (never an excluded name, never a plain file), and after a successful run
\* they are exactly the new content folders.
AddedIds(data) == { data[i].id : i \in (Len(Loaded) + 1)..Len(data) }

C8_AddedAreNewContentFolders ==
    /\ HasLoaded =>
          /\ AddedIds(manifest_data) \subseteq NewFolders
          /\ AddedIds(manifest_data) \cap EXCLUDE_PATTERNS = {}
    /\ Done => AddedIds(manifest_data) = NewFolders /\ AddedIds(file.data) = NewFolders

C8_Witness ==
    /\ Done
    /\ \E k, l \in 1..Len(upstream.root) :
          /\ upstream.root[k].name \in EXCLUDE_PATTERNS /\ upstream.root[k].isdir
          /\ upstream.root[l].name \notin EXCLUDE_PATTERNS /\ ~upstream.root[l].isdir
          /\ upstream.root[l].name \notin LoadedIds
    /\ AddedIds(file.data) = {}

\* C9: once the first download has failed the run is over with exit code 1
\* after that single request, with nothing extracted, scanned, appended,
\* updated or written; and a run that has aborted, at whatever step, has
\* written nothing and left the file as it was.
C9_AbortWritesNothing ==
    /\ (n_requests >= 1 /\ ~new_repo_hash.some) =>
          /\ pc = "abort" /\ abort_at = "hash" /\ exit_code = 1
          /\ n_requests = 1
          /\ repo_root_dir = None /\ scan_i = 0
          /\ manifest_data = Loaded /\ ~updated
          /\ n_writes = 0 /\ file = file_at_start
    /\ pc = "abort" =>
          /\ exit_code = 1
          /\ n_writes = 0 /\ file = file_at_start

C9_Witness ==
    /\ pc = "abort" /\ abort_at = "hash" /\ Len(Loaded) > 0
    /\ upstream.digest # Loaded[1].hash /\ NewFolders # {}

\* C10: with a required environment variable missing or empty the run
\* aborts with exit code 1 without opening the manifest file; with the file
\* missing or not JSON it aborts with exit code 1; in both cases no request
\* is issued and the file is left as it was.
EnvBad ==
    \E v \in {TRINKET_CONTENT_REPO, TRINKET_CONTENT_REF} : v = None \/ v = Some(<<>>)

C10_EarlyAbort ==
    /\ EnvBad =>
          /\ ~opened /\ n_requests = 0 /\ n_writes = 0 /\ file = file_at_start
          /\ pc \in {"env", "abort"}
          /\ pc = "abort" => exit_code = 1 /\ abort_at = "env"
    /\ (~EnvBad /\ file_at_start.kind # "json") =>
          /\ n_requests = 0 /\ n_writes = 0 /\ file = file_at_start
          /\ pc \in {"env", "open", "abort"}
          /\ pc = "abort" => exit_code = 1 /\ abort_at \in {"not_found", "json"}

C10_Witness ==
    /\ pc = "abort" /\ abort_at = "env"
    /\ TRINKET_CONTENT_REF = Some(<<>>)
    /\ file.kind = "json" /\ Len(file.data) > 0

====
